---- MODULE Spec2Model ----
(***************************************************************************)
(* Telefax (bot.py): a Telegram bot that prints images through CUPS.       *)
(* The model covers the eligibility check (can_print), the print history   *)
(* (load/save/record), the caption parser (parse_copies), main and the     *)
(* handlers handle_image, set_max_copies_command, help_command and start.  *)
(*                                                                         *)
(* Spec is one life of the process, from main on, with the handlers that   *)
(* print or change state; SpecRestart adds restarts of the process.        *)
(* SpecCanPrint, SpecStatus, SpecLoad and SpecParse apply can_print, the    *)
(* status queries, load_print_history and parse_copies to inputs drawn     *)
(* from wider sets than main can produce within Spec; SpecMaxCopies does   *)
(* so for the MAX_COPIES of the environment and of /setmaxcopies, SpecWait *)
(* for the wait text of can_print.                                         *)
(*                                                                         *)
(* Time is counted in whole seconds since an arbitrary epoch; a datetime   *)
(* is a record [t, aware].  Text that the code inspects character by       *)
(* character (captions, command arguments, JSON keys) is a sequence of     *)
(* one-character strings; text that is only built and shown is a TLA+      *)
(* string.  An optional caption is a record [some, text]; an optional      *)
(* display name is a string, None being the string "None".                 *)
(***************************************************************************)
EXTENDS Integers, Sequences, FiniteSets, TLC

VARIABLES
    ALLOWED_USER_IDS,      \* bot.py:43-44, list of ints from the environment
    ALLOW_GUEST_PRINTING,  \* bot.py:54
    CUPS_PRINTER_NAME,     \* bot.py:41, TRUE iff the variable is set
    MAX_COPIES,            \* bot.py:45-52, mutated by /setmaxcopies
    print_history,         \* bot.py:86, user id -> [last_print, username]
    history_file,          \* content of print_history.json
    now,                   \* the wall clock, datetime.now(timezone.utc)
    requests,              \* the handle_image invocations that have not returned
    received,              \* how many image events were dispatched so far
    lp_jobs,               \* the lp commands run so far, in order
    error_log,             \* how many exceptions error_handler has logged
    process                \* "running", or "crashed" when main raised

vars == <<ALLOWED_USER_IDS, ALLOW_GUEST_PRINTING, CUPS_PRINTER_NAME, MAX_COPIES,
          print_history, history_file, now, requests, received, lp_jobs,
          error_log, process>>

config == <<ALLOWED_USER_IDS, ALLOW_GUEST_PRINTING, CUPS_PRINTER_NAME>>

-----------------------------------------------------------------------------
(* Bounds of the model *)

MaxRequests == 2     \* image events received over one run
MaxInFlight == 2     \* handle_image invocations suspended at the same time
MaxDays == 8         \* the clock stops advancing after this many days

(* Units of datetime.timedelta *)
Day == 86400
Hour == 3600
Minute == 60

UNAUTHORIZED_USER_PRINT_INTERVAL == 7 * Day

DEFAULT_MAX_COPIES == 100

None == "None"

Users == {1, 2}

\* user.username as Telegram reports it; user 2 has no username
UsernameOf(u) == IF u = 1 THEN "alice" ELSE None

-----------------------------------------------------------------------------
(* Text helpers: str.strip, str.lower, int(), re.fullmatch *)

Digits == <<"0", "1", "2", "3", "4", "5", "6", "7", "8", "9">>
UpperCase == <<"C", "E", "I", "O", "P", "S", "X">>
LowerCase == <<"c", "e", "i", "o", "p", "s", "x">>
Whitespace == {" ", "\t", "\n"}

IsDigit(c) == \E i \in 1..10 : Digits[i] = c
DigitValue(c) == (CHOOSE i \in 1..10 : Digits[i] = c) - 1

\* str.lower on one character
LowerChar(c) ==
    IF \E i \in 1..Len(UpperCase) : UpperCase[i] = c
    THEN LowerCase[CHOOSE i \in 1..Len(UpperCase) : UpperCase[i] = c]
    ELSE c

lower(s) == [i \in 1..Len(s) |-> LowerChar(s[i])]

\* str.strip: drop leading and trailing whitespace
strip(s) ==
    LET keep == {i \in 1..Len(s) : s[i] \notin Whitespace}
    IN  IF keep = {} THEN <<>>
        ELSE LET lo == CHOOSE i \in keep : \A j \in keep : i <= j
                 hi == CHOOSE i \in keep : \A j \in keep : j <= i
             IN  SubSeq(s, lo, hi)

AllDigits(s) == Len(s) > 0 /\ \A i \in 1..Len(s) : IsDigit(s[i])

RECURSIVE DigitsToInt(_)
DigitsToInt(s) ==
    IF Len(s) = 0 THEN 0
    ELSE 10 * DigitsToInt(SubSeq(s, 1, Len(s) - 1)) + DigitValue(s[Len(s)])

\* int(text): an optional sign and decimal digits; anything else is a ValueError
IntParses(s) ==
    \/ AllDigits(s)
    \/ Len(s) > 1 /\ s[1] \in {"+", "-"} /\ AllDigits(Tail(s))

IntOf(s) ==
    IF AllDigits(s) THEN DigitsToInt(s)
    ELSE IF s[1] = "-" THEN 0 - DigitsToInt(Tail(s))
    ELSE DigitsToInt(Tail(s))

\* re.fullmatch(r'x(\d+)', s): the digit group, or <<>> when there is no match
MatchX(s) ==
    IF Len(s) >= 2 /\ s[1] = "x" /\ AllDigits(Tail(s)) THEN Tail(s) ELSE <<>>

\* re.fullmatch(r'copies\s*=\s*(\d+)', s): the digit group, or <<>>
CopiesWord == <<"c", "o", "p", "i", "e", "s">>

MatchCopies(s) ==
    LET splits == {p \in (7..Len(s)) \X (8..Len(s)) :
                      /\ p[1] < p[2]
                      /\ SubSeq(s, 1, 6) = CopiesWord
                      /\ \A i \in 7..(p[1] - 1) : s[i] \in Whitespace
                      /\ s[p[1]] = "="
                      /\ \A i \in (p[1] + 1)..(p[2] - 1) : s[i] \in Whitespace
                      /\ AllDigits(SubSeq(s, p[2], Len(s)))}
    IN  IF splits = {} THEN <<>>
        ELSE LET p == CHOOSE q \in splits : TRUE
             IN  SubSeq(s, p[2], Len(s))

\* parse_copies with a seeded fault: re.search instead of re.fullmatch, the
\* first "x<digits>" anywhere in the caption counts
parse_copies_search(caption) ==
    IF ~caption.some \/ caption.text = <<>> THEN 1
    ELSE LET c == lower(strip(caption.text))
             hits == {p \in (1..Len(c)) \X (1..Len(c)) :
                         /\ p[1] < p[2]
                         /\ c[p[1]] = "x"
                         /\ AllDigits(SubSeq(c, p[1] + 1, p[2]))}
         IN  IF hits = {} THEN 1
             ELSE LET p == CHOOSE q \in hits : \A r \in hits :
                                  q[1] < r[1] \/ (q[1] = r[1] /\ q[2] >= r[2])
                      n == DigitsToInt(SubSeq(c, p[1] + 1, p[2]))
                  IN  IF 1 <= n /\ n <= MAX_COPIES THEN n ELSE 1

\* parse_copies with a seeded fault: the number is not compared with MAX_COPIES
parse_copies_unbounded(caption) ==
    IF ~caption.some \/ caption.text = <<>> THEN 1
    ELSE LET c == lower(strip(caption.text))
             gx == MatchX(c)
             gc == MatchCopies(c)
         IN  IF gx # <<>> THEN (IF 1 <= DigitsToInt(gx) THEN DigitsToInt(gx) ELSE 1)
             ELSE IF gc # <<>> THEN (IF 1 <= DigitsToInt(gc) THEN DigitsToInt(gc) ELSE 1)
             ELSE 1

\* parse_copies(caption), reading the global MAX_COPIES
parse_copies(caption) ==
    IF ~caption.some \/ caption.text = <<>> THEN 1
    ELSE LET c == lower(strip(caption.text))
             gx == MatchX(c)
             gc == MatchCopies(c)
         IN  IF gx # <<>> THEN
                 (IF 1 <= DigitsToInt(gx) /\ DigitsToInt(gx) <= MAX_COPIES
                  THEN DigitsToInt(gx) ELSE 1)
             ELSE IF gc # <<>> THEN
                 (IF 1 <= DigitsToInt(gc) /\ DigitsToInt(gc) <= MAX_COPIES
                  THEN DigitsToInt(gc) ELSE 1)
             ELSE 1

-----------------------------------------------------------------------------
(* datetime and its ISO-8601 text *)

\* isoformat with a seeded fault: the offset is not written
isoformat_naive(dt) == [valid |-> TRUE, t |-> dt.t, offset |-> ""]

\* datetime.isoformat(): an aware UTC datetime carries the offset "+00:00"
isoformat(dt) ==
    [valid |-> TRUE, t |-> dt.t, offset |-> IF dt.aware THEN "+00:00" ELSE ""]

\* datetime.fromisoformat(text); FromIsoRaises(text) when it raises ValueError
FromIsoRaises(text) == ~text.valid
fromisoformat(text) == [t |-> text.t, aware |-> text.offset # ""]

\* str(int) for a non-negative int
RECURSIVE IntToDigits(_)
IntToDigits(n) ==
    IF n < 10 THEN <<Digits[n + 1]>>
    ELSE Append(IntToDigits(n \div 10), Digits[(n % 10) + 1])

-----------------------------------------------------------------------------
(* Print history: print_history.json and the in-memory cache *)

EmptyMap == [k \in {} |-> 0]

\* The file: absent, not JSON (or unreadable), a JSON object, or a JSON value
\* of another type (a list, a number, a string, null)
AbsentFile == [kind |-> "absent", items |-> EmptyMap]
CorruptFile == [kind |-> "corrupt", items |-> EmptyMap]
NonObjectFile == [kind |-> "nonobject", items |-> EmptyMap]

\* One value of the JSON object: a dict (new format), a str (old format) or
\* something else.  username = None stands for a dict without that key.
JsonDict(ts, name) == [type |-> "dict", last_print |-> ts, username |-> name]
JsonStr(ts) == [type |-> "str", last_print |-> ts, username |-> None]

\* a value that is neither a dict nor a str (a number, a list, null)
JsonOther == [type |-> "other", last_print |-> None, username |-> None]

\* Texts that datetime.fromisoformat rejects: a str that is not a date
\* (ValueError), the "" that data.get substitutes for a missing "last_print"
\* key (ValueError), a value that is not a str (TypeError)
BadTimestamp == [valid |-> FALSE, t |-> 0, offset |-> "", text |-> "not-a-date"]
NoTimestamp == [valid |-> FALSE, t |-> 0, offset |-> "", text |-> ""]
NumberTimestamp == [valid |-> FALSE, t |-> 0, offset |-> "", text |-> "12"]

\* load_print_history: whether one item of the file is kept (lines 97-109)
EntryLoads(key, data) ==
    /\ IntParses(key)
    /\ data.type \in {"dict", "str"}
    /\ ~FromIsoRaises(data.last_print)

LoadedEntry(data) ==
    [last_print |-> fromisoformat(data.last_print),
     username |-> IF data.type = "dict" /\ data.username # None
                  THEN data.username ELSE "Unknown"]

\* load_print_history: history_data.items() of line 96 raises AttributeError
\* when the JSON value is not an object; line 116 does not catch it
LoadRaises(file) == file.kind = "nonobject"

\* load_print_history with a seeded fault: one entry that fails to parse
\* rejects the whole file
load_print_history_strict(file) ==
    IF file.kind # "object" THEN EmptyMap
    ELSE IF \E k \in DOMAIN file.items : ~EntryLoads(k, file.items[k]) THEN EmptyMap
    ELSE LET ids == {IntOf(k) : k \in DOMAIN file.items}
         IN  [u \in ids |->
                 LoadedEntry(file.items[CHOOSE k \in DOMAIN file.items : IntOf(k) = u])]

\* load_print_history: the value print_history gets from a file
load_print_history(file) ==
    IF file.kind # "object" THEN EmptyMap
    ELSE LET keys == {k \in DOMAIN file.items : EntryLoads(k, file.items[k])}
             ids == {IntOf(k) : k \in keys}
         IN  [u \in ids |->
                 LoadedEntry(file.items[CHOOSE k \in keys : IntOf(k) = u])]

\* save_print_history: the JSON object written for a history (lines 125-130)
history_data_to_save(history) ==
    LET keyOf(u) == IntToDigits(u)
    IN  [k \in {keyOf(u) : u \in DOMAIN history} |->
            LET u == CHOOSE v \in DOMAIN history : keyOf(v) = k
            IN  JsonDict(isoformat(history[u].last_print), history[u].username)]

\* save_print_history: what the file holds afterwards.  open() may fail and
\* leave the file as it was; a failed write leaves the truncated file.
SaveOutcomes == {"saved", "open_failed", "write_failed"}

save_print_history(history, file, outcome) ==
    CASE outcome = "saved" -> [kind |-> "object", items |-> history_data_to_save(history)]
      [] outcome = "open_failed" -> file
      [] outcome = "write_failed" -> CorruptFile

\* record_print with a seeded fault: the history is replaced by the new entry
\* instead of being updated
record_print_alone(history, user_id, username) ==
    [u \in {user_id} |->
        [last_print |-> [t |-> now, aware |-> TRUE],
         username |-> IF username = None THEN "Unknown" ELSE username]]

\* record_print with a seeded fault: the entries whose cooldown is over are
\* dropped from the history
record_print_prune(history, user_id, username) ==
    LET entry == [last_print |-> [t |-> now, aware |-> TRUE],
                  username |-> IF username = None THEN "Unknown" ELSE username]
        kept == {u \in DOMAIN history :
                    now - history[u].last_print.t < UNAUTHORIZED_USER_PRINT_INTERVAL}
    IN  [u \in kept \cup {user_id} |-> IF u = user_id THEN entry ELSE history[u]]

\* record_print with a seeded fault: the timestamp is taken without a time zone
record_print_naive(history, user_id, username) ==
    LET entry == [last_print |-> [t |-> now, aware |-> FALSE],
                  username |-> IF username = None THEN "Unknown" ELSE username]
    IN  [u \in DOMAIN history \cup {user_id} |->
            IF u = user_id THEN entry ELSE history[u]]

\* record_print: the new in-memory history (lines 193-195)
record_print(history, user_id, username) ==
    LET entry == [last_print |-> [t |-> now, aware |-> TRUE],
                  username |-> IF username = None THEN "Unknown" ELSE username]
    IN  [u \in DOMAIN history \cup {user_id} |->
            IF u = user_id THEN entry ELSE history[u]]

-----------------------------------------------------------------------------
(* Eligibility: can_print *)

is_authorized(user_id) == ALLOWED_USER_IDS # {} /\ user_id \in ALLOWED_USER_IDS

Plural(n) == IF n # 1 THEN "s" ELSE ""

\* wait_str with a seeded fault: the test hours > 0 is missing
wait_str_zero_hours(wait_time) ==
    LET days == wait_time \div Day
        hours == (wait_time % Day) \div Hour
        minutes == ((wait_time % Day) % Hour) \div Minute
        s1 == IF days > 0 THEN ToString(days) \o " day" \o Plural(days) ELSE ""
        s2 == s1 \o (IF days > 0 THEN ", " ELSE "")
                 \o ToString(hours) \o " hour" \o Plural(hours)
        s3 == IF days = 0 /\ hours = 0 /\ minutes > 0
              THEN s2 \o ToString(minutes) \o " minute" \o Plural(minutes)
              ELSE s2
    IN  IF s3 = "" THEN "less than a minute" ELSE s3

\* lines 159-168: the wait time as text
wait_str(wait_time) ==
    LET days == wait_time \div Day
        seconds == wait_time % Day
        hours == seconds \div Hour
        remainder == seconds % Hour
        minutes == remainder \div Minute
        s1 == IF days > 0 THEN ToString(days) \o " day" \o Plural(days) ELSE ""
        s2 == IF hours > 0
              THEN s1 \o (IF days > 0 THEN ", " ELSE "")
                      \o ToString(hours) \o " hour" \o Plural(hours)
              ELSE s1
        s3 == IF days = 0 /\ hours = 0 /\ minutes > 0
              THEN s2 \o ToString(minutes) \o " minute" \o Plural(minutes)
              ELSE s2
    IN  IF s3 = "" THEN "less than a minute" ELSE s3

Decision(allowed, kind, wait, text) ==
    [allowed |-> allowed, kind |-> kind, wait |-> wait, text |-> text]

Allowed == Decision(TRUE, "none", 0, None)
GuestsDenied ==
    Decision(FALSE, "guests", 0, "Printing is restricted to authorized users only.")
RateLimited(wait) ==
    Decision(FALSE, "rate_limit", wait,
             "You have already printed recently. Please wait " \o wait_str(wait)
                 \o " before printing again.")
\* datetime.now(timezone.utc) - naive datetime raises TypeError (line 155)
Raised == Decision(FALSE, "raised", 0, "TypeError")

\* the decision for a user who is not authorized (lines 149-187)
GuestDecision(user_id, within) ==
    IF user_id \in DOMAIN print_history
    THEN LET last_print_time == print_history[user_id].last_print
             time_since_last_print == now - last_print_time.t
         IN  IF ~last_print_time.aware THEN Raised
             ELSE IF within
             THEN RateLimited(UNAUTHORIZED_USER_PRINT_INTERVAL - time_since_last_print)
             ELSE IF ALLOW_GUEST_PRINTING THEN Allowed ELSE GuestsDenied
    ELSE IF ALLOW_GUEST_PRINTING THEN Allowed ELSE GuestsDenied

WithinInterval(user_id) ==
    now - print_history[user_id].last_print.t < UNAUTHORIZED_USER_PRINT_INTERVAL

\* can_print with a seeded fault: the rate limit is checked before the allow-list
can_print_rate_first(user_id) ==
    IF user_id \in DOMAIN print_history
          /\ print_history[user_id].last_print.aware /\ WithinInterval(user_id)
    THEN GuestDecision(user_id, TRUE)
    ELSE IF is_authorized(user_id) THEN Allowed
    ELSE GuestDecision(user_id, FALSE)

\* can_print with a seeded fault: the guest-printing flag is checked before the rate limit
can_print_guest_first(user_id) ==
    IF is_authorized(user_id) THEN Allowed
    ELSE IF ~ALLOW_GUEST_PRINTING THEN GuestsDenied
    ELSE GuestDecision(user_id, user_id \in DOMAIN print_history /\ WithinInterval(user_id))

\* can_print with a seeded fault: the interval is compared with <= instead of <
can_print_le(user_id) ==
    IF is_authorized(user_id) THEN Allowed
    ELSE GuestDecision(user_id,
             user_id \in DOMAIN print_history
                 /\ now - print_history[user_id].last_print.t
                        <= UNAUTHORIZED_USER_PRINT_INTERVAL)

\* the (allowed, reason) pair can_print returns for a user at the current time
can_print(user_id) ==
    IF is_authorized(user_id) THEN Allowed
    ELSE IF user_id \in DOMAIN print_history
         THEN LET last_print_time == print_history[user_id].last_print
                  time_since_last_print == now - last_print_time.t
              IN  IF ~last_print_time.aware THEN Raised
                  ELSE IF time_since_last_print < UNAUTHORIZED_USER_PRINT_INTERVAL
                  THEN RateLimited(UNAUTHORIZED_USER_PRINT_INTERVAL
                                       - time_since_last_print)
                  ELSE IF ALLOW_GUEST_PRINTING THEN Allowed ELSE GuestsDenied
         ELSE IF ALLOW_GUEST_PRINTING THEN Allowed ELSE GuestsDenied

-----------------------------------------------------------------------------
(* Inputs *)

Text(chars) == [some |-> TRUE, text |-> chars]
NoText == [some |-> FALSE, text |-> <<>>]

\* update.message.caption
Captions == {NoText, Text(<<"X", "3">>)}

\* context.args of /setmaxcopies
SetMaxArgs == {<<>>, << <<"2">> >>, << <<"0">> >>, << <<"a">> >>, << <<"2">>, <<"4">> >>}

\* os.getenv("MAX_COPIES")
EnvMaxCopies == {NoText, Text(<<"a">>), Text(<<"0">>), Text(<<"2">>)}

\* os.getenv("ALLOWED_USER_IDS") after lines 43-44
AllowLists == {{}, {1}}

\* how far the clock moves between two events
TickSteps == {3 * Day, 4 * Day}

ts0 == isoformat([t |-> 0, aware |-> TRUE])
ts0naive == isoformat([t |-> 0, aware |-> FALSE])

\* print_history.json as main finds it
InitFiles ==
    {AbsentFile,
     CorruptFile,
     NonObjectFile,
     [kind |-> "object",
      items |-> (<<"1">> :> JsonDict(ts0, "alice")) @@ (<<"2">> :> JsonDict(ts0, None))],
     [kind |-> "object",
      items |-> (<<"2">> :> JsonStr(ts0naive)) @@ (<<"x">> :> JsonStr(ts0))]}

\* lines 45-52: MAX_COPIES from the environment
MaxCopiesFromEnv(env) ==
    LET parsed == IF ~env.some THEN DEFAULT_MAX_COPIES
                  ELSE IF IntParses(env.text) THEN IntOf(env.text)
                  ELSE DEFAULT_MAX_COPIES
    IN  IF parsed <= 0 THEN DEFAULT_MAX_COPIES ELSE parsed

-----------------------------------------------------------------------------
(* handle_image: requests maps the number of each invocation that has not   *)
(* returned yet to its local variables; pc names the await it is suspended  *)
(* at.  An invocation that returns leaves the map.                          *)

Request(user, caption, pc, decision, reply) ==
    [user |-> user, caption |-> caption, pc |-> pc, decision |-> decision,
     authorized |-> FALSE, copies |-> 0, resized |-> "no", reply |-> reply]

\* subprocess.run (line 257) has no timeout and is called on the thread of the
\* event loop: while lp has not returned no handler runs
Blocked == \E i \in DOMAIN requests : requests[i].pc = "lp_running"

\* the event loop can run a step of a handler
Dispatching == process = "running" /\ ~Blocked

\* invocation i is suspended at an await and can be resumed
Awaiting(i) == Dispatching /\ i \in DOMAIN requests

Suspend(i, r) ==
    requests' = [j \in DOMAIN requests \cup {i} |-> IF j = i THEN r ELSE requests[j]]

Return(i) ==
    requests' = [j \in DOMAIN requests \ {i} |-> requests[j]]

\* HandleImage with a seeded fault: the return of line 464 is missing, a denied request
\* goes on to the download
HandleImage_NoReturn(user, caption) ==
    /\ Dispatching
    /\ received < MaxRequests
    /\ Cardinality(DOMAIN requests) < MaxInFlight
    /\ received' = received + 1
    /\ can_print(user).kind # "raised"
    /\ Suspend(received + 1, Request(user, caption, "download", can_print(user),
                   IF can_print(user).allowed THEN None
                   ELSE "Sorry, you cannot print right now. " \o can_print(user).text))
    /\ UNCHANGED <<config, process, MAX_COPIES, print_history, history_file, now, lp_jobs, error_log>>

\* lines 457-478: from the dispatch of the handler to its first await.  The
\* handler is registered for photo messages only (line 569), so the check
\* of line 467 never fails.
HandleImage(user, caption) ==
    /\ Dispatching
    /\ received < MaxRequests
    /\ Cardinality(DOMAIN requests) < MaxInFlight
    /\ received' = received + 1
    /\ LET d == can_print(user)
           i == received + 1
       IN  IF d.kind = "raised"
           THEN /\ UNCHANGED requests
                /\ error_log' = error_log + 1
           ELSE /\ UNCHANGED error_log
                /\ IF ~d.allowed
                   THEN Suspend(i, Request(user, caption, "reply_denied", d,
                                "Sorry, you cannot print right now. " \o d.text))
                   ELSE IF ~CUPS_PRINTER_NAME
                   THEN Suspend(i, Request(user, caption, "reply_no_printer", d,
                                "Printer is not configured. Please contact the administrator."))
                   ELSE Suspend(i, Request(user, caption, "download", d, None))
    /\ UNCHANGED <<config, process, MAX_COPIES, print_history, history_file, now, lp_jobs>>

\* ReplyDone with a seeded fault: after "Failed to send to printer." the handler
\* goes back and submits again
ReplyDone_Retry(i) ==
    /\ Awaiting(i)
    /\ requests[i].pc \in {"reply_denied", "reply_no_printer",
                           "reply_failed_image", "reply_failed_print"}
    /\ IF requests[i].pc = "reply_failed_print"
       THEN Suspend(i, [requests[i] EXCEPT !.pc = "reply_received"])
       ELSE Return(i)
    /\ UNCHANGED <<config, process, MAX_COPIES, print_history, history_file, now, lp_jobs, received, error_log>>

\* lines 463-464, 474-475, 506-507, 523: the reply is sent and the handler returns
ReplyDone(i) ==
    /\ Awaiting(i)
    /\ requests[i].pc \in {"reply_denied", "reply_no_printer",
                           "reply_failed_image", "reply_failed_print"}
    /\ Return(i)
    /\ UNCHANGED <<config, process, MAX_COPIES, print_history, history_file, now, lp_jobs, received, error_log>>

\* copies_to_print with a seeded fault: the caption decides for every user
copies_to_print_any(user, caption) == parse_copies(caption)

\* lines 481-498: the copies to print and how the reply names them
copies_to_print(user, caption) ==
    IF is_authorized(user) THEN parse_copies(caption) ELSE 1

copies_message(user, caption) ==
    IF is_authorized(user)
    THEN ToString(parse_copies(caption))
             \o (IF parse_copies(caption) = 1 THEN " copy" ELSE " copies")
    ELSE IF parse_copies(caption) > 1
    THEN "1 copy (multiple copies ignored for guest users)"
    ELSE "1 copy"

\* lines 478-500: get_file and the download return (two awaits with nothing in
\* between), the copies are resolved
Downloaded(i) ==
    /\ Awaiting(i)
    /\ requests[i].pc = "download"
    /\ Suspend(i, [requests[i] EXCEPT
            !.pc = "reply_received",
            !.authorized = is_authorized(requests[i].user),
            !.copies = copies_to_print(requests[i].user, requests[i].caption),
            !.reply = "Received image. Preparing to print "
                         \o copies_message(requests[i].user, requests[i].caption)
                         \o "..."])
    /\ UNCHANGED <<config, process, MAX_COPIES, print_history, history_file, now, lp_jobs, received, error_log>>

\* lines 503-507: resize_image returns (None, None)
ResizeFails(i) ==
    /\ Awaiting(i)
    /\ requests[i].pc = "reply_received"
    /\ Suspend(i, [requests[i] EXCEPT
            !.pc = "reply_failed_image",
            !.resized = "failed",
            !.reply = "Failed to process the image."])
    /\ UNCHANGED <<config, process, MAX_COPIES, print_history, history_file, now, lp_jobs, received, error_log>>

\* line 510: one run of lp by print_image_cups; ok when it returned exit status 0
Job(i, ok) ==
    [req |-> i, user |-> requests[i].user, copies |-> requests[i].copies,
     at |-> now, ok |-> ok]

\* PrintFails with a seeded fault: the print is recorded before lp's result is looked at
PrintFails_Records(i) ==
    /\ Awaiting(i)
    /\ requests[i].pc = "reply_received"
    /\ Suspend(i, [requests[i] EXCEPT
            !.pc = "reply_failed_print",
            !.resized = "ok",
            !.reply = "Failed to send to printer."])
    /\ lp_jobs' = Append(lp_jobs, [req |-> i, user |-> requests[i].user,
                                   copies |-> requests[i].copies, at |-> now, ok |-> FALSE])
    /\ print_history' = [u \in DOMAIN print_history \cup {requests[i].user} |->
                            IF u = requests[i].user
                            THEN [last_print |-> [t |-> now, aware |-> TRUE],
                                  username |-> "Unknown"]
                            ELSE print_history[u]]
    /\ UNCHANGED <<config, process, MAX_COPIES, history_file, now, received, error_log>>

\* lines 503-510, 521-523: the image is resized, lp is run and fails
PrintFails(i) ==
    /\ Awaiting(i)
    /\ requests[i].pc = "reply_received"
    /\ Suspend(i, [requests[i] EXCEPT
            !.pc = "reply_failed_print",
            !.resized = "ok",
            !.reply = "Failed to send to printer."])
    /\ lp_jobs' = Append(lp_jobs, Job(i, FALSE))
    /\ UNCHANGED <<config, process, MAX_COPIES, print_history, history_file, now, received, error_log>>

\* lines 503-514: the image is resized, lp is run and succeeds
PrintSucceeds(i) ==
    /\ Awaiting(i)
    /\ requests[i].pc = "reply_received"
    /\ Suspend(i, [requests[i] EXCEPT
            !.pc = "reply_sent",
            !.resized = "ok",
            !.reply = "Sent " \o ToString(requests[i].copies)
                         \o (IF requests[i].copies = 1 THEN " copy" ELSE " copies")
                         \o " to printer!"])
    /\ lp_jobs' = Append(lp_jobs, Job(i, TRUE))
    /\ UNCHANGED <<config, process, MAX_COPIES, print_history, history_file, now, received, error_log>>

\* line 257: lp is run and does not return; nothing bounds the wait
PrintHangs(i) ==
    /\ Awaiting(i)
    /\ requests[i].pc = "reply_received"
    /\ Suspend(i, [requests[i] EXCEPT !.pc = "lp_running", !.resized = "ok"])
    /\ lp_jobs' = Append(lp_jobs, Job(i, FALSE))
    /\ UNCHANGED <<config, process, MAX_COPIES, print_history, history_file, now, received, error_log>>

\* ShouldRecord with a seeded fault: the test for the allow-list is missing
ShouldRecord_all(i) == ALLOW_GUEST_PRINTING

\* line 518: whether the print is recorded
ShouldRecord(i) == ALLOW_GUEST_PRINTING /\ ~requests[i].authorized

\* Sent with a seeded fault: the file is written before print_history is
\* updated and a failure of the write is raised to the handler
Sent_SaveAborts(i, save) ==
    /\ Awaiting(i)
    /\ requests[i].pc = "reply_sent"
    /\ Return(i)
    /\ IF ShouldRecord(i)
       THEN LET h == record_print(print_history, requests[i].user,
                                  UsernameOf(requests[i].user))
            IN  /\ history_file' = save_print_history(h, history_file, save)
                /\ print_history' = IF save = "saved" THEN h ELSE print_history
                /\ error_log' = IF save = "saved" THEN error_log ELSE error_log + 1
       ELSE /\ save = "saved"
            /\ UNCHANGED <<print_history, history_file, error_log>>
    /\ UNCHANGED <<config, process, MAX_COPIES, now, lp_jobs, received>>

\* lines 514-520: the reply is sent, the print is recorded and saved
Sent(i, save) ==
    /\ Awaiting(i)
    /\ requests[i].pc = "reply_sent"
    /\ Return(i)
    /\ IF ShouldRecord(i)
       THEN LET h == record_print(print_history, requests[i].user,
                                  UsernameOf(requests[i].user))
            IN  /\ print_history' = h
                /\ history_file' = save_print_history(h, history_file, save)
       ELSE /\ save = "saved"
            /\ UNCHANGED <<print_history, history_file>>
    /\ UNCHANGED <<config, process, MAX_COPIES, now, lp_jobs, received, error_log>>

\* an awaited Telegram call raises: the handler is left, error_handler
\* (lines 526-528) logs the exception
AwaitRaises(i) ==
    /\ Awaiting(i)
    /\ Return(i)
    /\ error_log' = error_log + 1
    /\ UNCHANGED <<config, process, MAX_COPIES, print_history, history_file, now, lp_jobs, received>>

-----------------------------------------------------------------------------
(* set_max_copies_command *)

\* set_max_copies with a seeded fault: the test new_max <= 0 is missing
set_max_copies_any(user, args) ==
    IF ALLOWED_USER_IDS # {} /\ user \notin ALLOWED_USER_IDS THEN MAX_COPIES
    ELSE IF Len(args) # 1 THEN MAX_COPIES
    ELSE IF ~IntParses(args[1]) THEN MAX_COPIES
    ELSE IntOf(args[1])

\* lines 326-349: the value MAX_COPIES has when the handler returns
set_max_copies(user, args) ==
    IF ALLOWED_USER_IDS # {} /\ user \notin ALLOWED_USER_IDS THEN MAX_COPIES
    ELSE IF Len(args) # 1 THEN MAX_COPIES
    ELSE IF ~IntParses(args[1]) THEN MAX_COPIES
    ELSE IF IntOf(args[1]) <= 0 THEN MAX_COPIES
    ELSE IntOf(args[1])

set_max_copies_command(user, args) ==
    /\ Dispatching
    /\ MAX_COPIES' = set_max_copies(user, args)
    /\ UNCHANGED <<config, process, print_history, history_file, now, requests, received, lp_jobs,
                   error_log>>

-----------------------------------------------------------------------------
(* help_command and start: the status queries.  Their invocations wait in   *)
(* requests at the one await they have, the reply.  The texts are cut down  *)
(* to the parts that depend on the state.                                   *)

\* lines 416-421, 445-450: the rate-limit status added for a user who is not
\* in the allow-list ("Please wait" is in the rate-limit reason only)
StatusWarning(user) ==
    IF ~is_authorized(user) /\ ~can_print(user).allowed
           /\ can_print(user).kind = "rate_limit"
    THEN " Status: " \o can_print(user).text
    ELSE ""

\* lines 372-413
HelpText(user) ==
    (IF is_authorized(user)
     THEN "Bot Commands & Usage: /start /help /setmaxcopies."
              \o " The maximum number of copies per request is currently "
              \o ToString(MAX_COPIES) \o "."
     ELSE "Bot Commands & Usage: /start /help.")
        \o (IF ALLOW_GUEST_PRINTING
            THEN " Guest printing is currently enabled."
            ELSE " Guest printing is currently disabled.")
        \o StatusWarning(user)

\* lines 435-450
WelcomeText(user) ==
    "Hi! Send me an image to print on the label printer."
        \o (IF ~CUPS_PRINTER_NAME
            THEN " Warning: The printer is not configured." ELSE "")
        \o StatusWarning(user)

\* A status query up to its reply.  can_print is called for a user outside
\* the allow-list only; when it raises, the handler is left and error_handler
\* logs the exception.  The decision kept for an allow-listed user is Allowed.
StatusQuery(user, pc, text) ==
    /\ Dispatching
    /\ received < MaxRequests
    /\ Cardinality(DOMAIN requests) < MaxInFlight
    /\ received' = received + 1
    /\ IF ~is_authorized(user) /\ can_print(user).kind = "raised"
       THEN /\ UNCHANGED requests
            /\ error_log' = error_log + 1
       ELSE /\ UNCHANGED error_log
            /\ Suspend(received + 1,
                       Request(user, NoText, pc,
                               IF is_authorized(user) THEN Allowed ELSE can_print(user),
                               text))
    /\ UNCHANGED <<config, process, MAX_COPIES, print_history, history_file, now, lp_jobs>>

\* help_command with a seeded fault: asking for help counts as a print
help_command_records(user) ==
    /\ Dispatching
    /\ received < MaxRequests
    /\ Cardinality(DOMAIN requests) < MaxInFlight
    /\ received' = received + 1
    /\ Suspend(received + 1, Request(user, NoText, "reply_help", Allowed, HelpText(user)))
    /\ print_history' = record_print(print_history, user, UsernameOf(user))
    /\ UNCHANGED <<config, process, MAX_COPIES, history_file, now, lp_jobs, error_log>>

\* lines 360-427
help_command(user) == StatusQuery(user, "reply_help", HelpText(user))

\* lines 430-453
start(user) == StatusQuery(user, "reply_start", WelcomeText(user))

\* lines 427, 453: the reply is sent and the handler returns
StatusReplied(i) ==
    /\ Awaiting(i)
    /\ requests[i].pc \in {"reply_help", "reply_start"}
    /\ Return(i)
    /\ UNCHANGED <<config, process, MAX_COPIES, print_history, history_file, now, lp_jobs, received, error_log>>

-----------------------------------------------------------------------------
(* The clock *)

Tick(d) ==
    /\ now + d <= MaxDays * Day
    /\ now' = now + d
    /\ UNCHANGED <<config, process, MAX_COPIES, print_history, history_file, requests, received,
                   lp_jobs, error_log>>

-----------------------------------------------------------------------------
(* main *)

\* lines 556-558: the history is loaded only when guest printing is enabled;
\* an exception that load_print_history does not catch ends the process
MainProcess(flag, file) == IF flag /\ LoadRaises(file) THEN "crashed" ELSE "running"

MainHistory(flag, file) ==
    IF flag /\ ~LoadRaises(file) THEN load_print_history(file) ELSE EmptyMap

\* The process is stopped and started again: the module is imported again
\* (the environment may have changed for ALLOW_GUEST_PRINTING and MAX_COPIES),
\* the invocations in flight are gone, main runs.  The file, the clock and
\* the logs stay.
Restart(flag, env) ==
    /\ ALLOW_GUEST_PRINTING' = flag
    /\ MAX_COPIES' = MaxCopiesFromEnv(env)
    /\ process' = MainProcess(flag, history_file)
    /\ print_history' = MainHistory(flag, history_file)
    /\ requests' = EmptyMap
    /\ UNCHANGED <<ALLOWED_USER_IDS, CUPS_PRINTER_NAME, history_file, now, received,
                   lp_jobs, error_log>>

-----------------------------------------------------------------------------
(* The program: module import (lines 40-86) and main (lines 556-558) *)

Init ==
    /\ ALLOWED_USER_IDS \in AllowLists
    /\ ALLOW_GUEST_PRINTING \in BOOLEAN
    /\ CUPS_PRINTER_NAME \in BOOLEAN
    /\ MAX_COPIES \in {MaxCopiesFromEnv(e) : e \in EnvMaxCopies}
    /\ history_file \in InitFiles
    /\ process = MainProcess(ALLOW_GUEST_PRINTING, history_file)
    /\ print_history = MainHistory(ALLOW_GUEST_PRINTING, history_file)
    /\ now = 0
    /\ requests = EmptyMap
    /\ received = 0
    /\ lp_jobs = <<>>
    /\ error_log = 0

Next ==
    \/ \E u \in Users, c \in Captions : HandleImage(u, c)
    \/ \E i \in 1..MaxRequests : ReplyDone(i)
    \/ \E i \in 1..MaxRequests : Downloaded(i)
    \/ \E i \in 1..MaxRequests : ResizeFails(i)
    \/ \E i \in 1..MaxRequests : PrintFails(i)
    \/ \E i \in 1..MaxRequests : PrintSucceeds(i)
    \/ \E i \in 1..MaxRequests : PrintHangs(i)
    \/ \E i \in 1..MaxRequests, s \in SaveOutcomes : Sent(i, s)
    \/ \E i \in 1..MaxRequests : AwaitRaises(i)
    \/ \E u \in Users, a \in SetMaxArgs : set_max_copies_command(u, a)
    \/ \E d \in TickSteps : Tick(d)

Spec == Init /\ [][Next]_vars

\* os.getenv("MAX_COPIES") at a restart
RestartEnv == {NoText, Text(<<"2">>)}

\* the program over several lives of the process
NextRestart ==
    \/ Next
    \/ \E flag \in BOOLEAN, env \in RestartEnv : Restart(flag, env)

SpecRestart == Init /\ [][NextRestart]_vars

-----------------------------------------------------------------------------
(* can_print as a function of its inputs: the globals it reads are drawn    *)
(* from bounded sets, whether or not main can produce them, and the image   *)
(* handler applies it.                                                      *)

EntryChoices ==
    {[last_print |-> [t |-> t, aware |-> a], username |-> "Unknown"] :
        t \in {0, Day}, a \in BOOLEAN}

Histories ==
    UNION {[S -> EntryChoices] : S \in SUBSET Users}

InitCanPrint ==
    /\ ALLOWED_USER_IDS \in AllowLists
    /\ ALLOW_GUEST_PRINTING \in BOOLEAN
    /\ CUPS_PRINTER_NAME \in BOOLEAN
    /\ MAX_COPIES = DEFAULT_MAX_COPIES
    /\ history_file = AbsentFile
    /\ process = "running"
    /\ print_history \in Histories
    /\ now = 0
    /\ requests = EmptyMap
    /\ received = 0
    /\ lp_jobs = <<>>
    /\ error_log = 0

NextCanPrint ==
    \/ \E u \in Users, c \in Captions : HandleImage(u, c)
    \/ \E i \in 1..MaxRequests : ReplyDone(i)
    \/ \E d \in TickSteps : Tick(d)

SpecCanPrint == InitCanPrint /\ [][NextCanPrint]_vars

-----------------------------------------------------------------------------
(* The status queries next to the image handler, over the histories and     *)
(* flags of InitCanPrint.                                                   *)

NextStatus ==
    \/ \E u \in Users : help_command(u)
    \/ \E u \in Users : start(u)
    \/ \E i \in 1..MaxRequests : StatusReplied(i)
    \/ \E u \in Users, c \in Captions : HandleImage(u, c)
    \/ \E i \in 1..MaxRequests : ReplyDone(i)
    \/ \E d \in TickSteps : Tick(d)

SpecStatus == InitCanPrint /\ [][NextStatus]_vars

-----------------------------------------------------------------------------
(* load_print_history as a function of the file: main, at the start of the  *)
(* process and at each restart, finds a file drawn from a wider set.        *)

tsDay == isoformat([t |-> Day, aware |-> TRUE])

\* Values of one item of the file with what a reader of the two formats
\* expects: whether the item is well formed and the entry it stands for
LoadCases ==
    {[data |-> JsonDict(ts0, "alice"), loads |-> TRUE,
      entry |-> [last_print |-> [t |-> 0, aware |-> TRUE], username |-> "alice"]],
     [data |-> JsonDict(tsDay, None), loads |-> TRUE,
      entry |-> [last_print |-> [t |-> Day, aware |-> TRUE], username |-> "Unknown"]],
     [data |-> JsonStr(tsDay), loads |-> TRUE,
      entry |-> [last_print |-> [t |-> Day, aware |-> TRUE], username |-> "Unknown"]],
     [data |-> JsonStr(ts0naive), loads |-> TRUE,
      entry |-> [last_print |-> [t |-> 0, aware |-> FALSE], username |-> "Unknown"]],
     [data |-> JsonDict(BadTimestamp, "alice"), loads |-> FALSE, entry |-> None],
     [data |-> JsonDict(NoTimestamp, "alice"), loads |-> FALSE, entry |-> None],
     [data |-> JsonDict(NumberTimestamp, None), loads |-> FALSE, entry |-> None],
     [data |-> JsonStr(BadTimestamp), loads |-> FALSE, entry |-> None],
     [data |-> JsonOther, loads |-> FALSE, entry |-> None]}

EntryValues == {c.data : c \in LoadCases}

\* the JSON objects with any of the keys "1", "2" and "x"
LoadObjects ==
    {[kind |-> "object", items |-> f] :
        f \in UNION {[K -> EntryValues] : K \in SUBSET {<<"1">>, <<"2">>, <<"x">>}}}

LoadFiles ==
    {AbsentFile, CorruptFile, NonObjectFile}
        \cup {o \in LoadObjects :
                 <<"x">> \in DOMAIN o.items => o.items[<<"x">>] = JsonDict(ts0, "alice")}

InitLoad ==
    /\ ALLOWED_USER_IDS \in AllowLists
    /\ ALLOW_GUEST_PRINTING \in BOOLEAN
    /\ CUPS_PRINTER_NAME = TRUE
    /\ MAX_COPIES = DEFAULT_MAX_COPIES
    /\ history_file \in LoadFiles
    /\ process = MainProcess(ALLOW_GUEST_PRINTING, history_file)
    /\ print_history = MainHistory(ALLOW_GUEST_PRINTING, history_file)
    /\ now = 0
    /\ requests = EmptyMap
    /\ received = 0
    /\ lp_jobs = <<>>
    /\ error_log = 0

NextLoad ==
    \/ \E u \in Users : HandleImage(u, NoText)
    \/ \E i \in 1..MaxRequests : ReplyDone(i)
    \/ \E d \in TickSteps : Tick(d)
    \/ \E flag \in BOOLEAN : Restart(flag, NoText)

SpecLoad == InitLoad /\ [][NextLoad]_vars

-----------------------------------------------------------------------------
(* MAX_COPIES as a function of the environment and of the arguments of      *)
(* /setmaxcopies: the process starts and restarts on a wider set of values  *)
(* of the environment, and the command is given a wider set of arguments,   *)
(* next to image requests.                                                  *)

\* Values of os.getenv("MAX_COPIES") with the MAX_COPIES a reader of lines
\* 45-52 expects
EnvCases ==
    {[env |-> NoText, value |-> 100],
     [env |-> Text(<<>>), value |-> 100],
     [env |-> Text(<<"a">>), value |-> 100],
     [env |-> Text(<<"2", ".", "5">>), value |-> 100],
     [env |-> Text(<<"0">>), value |-> 100],
     [env |-> Text(<<"-", "3">>), value |-> 100],
     [env |-> Text(<<"2">>), value |-> 2],
     [env |-> Text(<<"1", "0", "0", "0">>), value |-> 1000]}

\* context.args of /setmaxcopies with what a reader of lines 332-349
\* expects: whether they are one positive integer, and that integer
SetMaxCases ==
    {[args |-> <<>>, sets |-> FALSE, n |-> 0],
     [args |-> << <<"2">>, <<"4">> >>, sets |-> FALSE, n |-> 0],
     [args |-> << <<"a">> >>, sets |-> FALSE, n |-> 0],
     [args |-> << <<"2", ".", "5">> >>, sets |-> FALSE, n |-> 0],
     [args |-> << <<"0">> >>, sets |-> FALSE, n |-> 0],
     [args |-> << <<"-", "1">> >>, sets |-> FALSE, n |-> 0],
     [args |-> << <<"2">> >>, sets |-> TRUE, n |-> 2],
     [args |-> << <<"5", "0">> >>, sets |-> TRUE, n |-> 50]}

InitMaxCopies ==
    /\ ALLOWED_USER_IDS \in AllowLists
    /\ ALLOW_GUEST_PRINTING = TRUE
    /\ CUPS_PRINTER_NAME = TRUE
    /\ MAX_COPIES \in {MaxCopiesFromEnv(c.env) : c \in EnvCases}
    /\ history_file = AbsentFile
    /\ process = "running"
    /\ print_history = EmptyMap
    /\ now = 0
    /\ requests = EmptyMap
    /\ received = 0
    /\ lp_jobs = <<>>
    /\ error_log = 0

NextMaxCopies ==
    \/ \E u \in Users, c \in SetMaxCases : set_max_copies_command(u, c.args)
    \/ \E c \in EnvCases : Restart(TRUE, c.env)
    \/ \E u \in Users, c \in Captions : HandleImage(u, c)
    \/ \E i \in 1..MaxRequests : ReplyDone(i)
    \/ \E i \in 1..MaxRequests : Downloaded(i)
    \/ \E i \in 1..MaxRequests : PrintSucceeds(i)
    \/ \E i \in 1..MaxRequests : Sent(i, "saved")

SpecMaxCopies == InitMaxCopies /\ [][NextMaxCopies]_vars

-----------------------------------------------------------------------------
(* parse_copies as a function of the caption and of MAX_COPIES: the image   *)
(* handler resolves the copies of an allow-listed user, the only one whose  *)
(* caption counts (line 484), from a wider set of captions.                 *)

\* Captions with what a reader of the two formats expects: whether the
\* trimmed, case-folded caption is x<N> or copies=<N> as a whole, and N
ParseCases ==
    {
     [caption |-> Text(<<"X", "3">>), match |-> TRUE, n |-> 3],
     [caption |-> Text(<<" ", "x", "3", "\n">>), match |-> TRUE, n |-> 3],
     [caption |-> Text(<<"x", "0", "3">>), match |-> TRUE, n |-> 3],
     [caption |-> Text(<<"x", "0">>), match |-> TRUE, n |-> 0],
     [caption |-> Text(<<"x", "9", "9", "9">>), match |-> TRUE, n |-> 999],
     [caption |-> Text(<<"x", "1", "0", "0">>), match |-> TRUE, n |-> 100],
     [caption |-> Text(<<"c", "o", "p", "i", "e", "s", "=", "5">>), match |-> TRUE, n |-> 5],
     [caption |-> Text(<<"C", "o", "p", "i", "e", "s", " ", "=", " ", "5">>), match |-> TRUE, n |-> 5],
     [caption |-> Text(<<"C", "O", "P", "I", "E", "S", "\t", "=", "5", " ">>), match |-> TRUE, n |-> 5],
     [caption |-> Text(<<"c", "o", "p", "i", "e", "s", "=", "0">>), match |-> TRUE, n |-> 0],
     [caption |-> Text(<<"p", "l", "e", "a", "s", "e", " ", "p", "r", "i", "n", "t", " ", "x", "3">>), match |-> FALSE, n |-> 0],
     [caption |-> Text(<<"x", "3", " ", "p", "l", "e", "a", "s", "e">>), match |-> FALSE, n |-> 0],
     [caption |-> Text(<<"x", " ", "3">>), match |-> FALSE, n |-> 0],
     [caption |-> Text(<<"x">>), match |-> FALSE, n |-> 0],
     [caption |-> Text(<<"3">>), match |-> FALSE, n |-> 0],
     [caption |-> Text(<<"x", "-", "3">>), match |-> FALSE, n |-> 0],
     [caption |-> Text(<<"c", "o", "p", "i", "e", "s", "5">>), match |-> FALSE, n |-> 0],
     [caption |-> Text(<<"c", "o", "p", "i", "e", "s", "=">>), match |-> FALSE, n |-> 0],
     [caption |-> Text(<<" ">>), match |-> FALSE, n |-> 0],
     [caption |-> Text(<<>>), match |-> FALSE, n |-> 0],
     [caption |-> NoText, match |-> FALSE, n |-> 0]}

ParseCaptions == {c.caption : c \in ParseCases}

ParseMaxCopies == {2, 5, 100}

InitParse ==
    /\ ALLOWED_USER_IDS = {1}
    /\ ALLOW_GUEST_PRINTING = FALSE
    /\ CUPS_PRINTER_NAME \in BOOLEAN
    /\ MAX_COPIES \in ParseMaxCopies
    /\ history_file = AbsentFile
    /\ process = "running"
    /\ print_history = EmptyMap
    /\ now = 0
    /\ requests = EmptyMap
    /\ received = 0
    /\ lp_jobs = <<>>
    /\ error_log = 0

NextParse ==
    \/ \E u \in ALLOWED_USER_IDS, c \in ParseCaptions : HandleImage(u, c)
    \/ \E i \in 1..MaxRequests : ReplyDone(i)
    \/ \E i \in 1..MaxRequests : Downloaded(i)

SpecParse == InitParse /\ [][NextParse]_vars

-----------------------------------------------------------------------------
(* Properties *)

Guests == {u \in Users : ~is_authorized(u)}

\* the time since the last print of a user with an aware history entry
HasAwareEntry(u) == u \in DOMAIN print_history /\ print_history[u].last_print.aware
Elapsed(u) == now - print_history[u].last_print.t

OkJobs == {j \in 1..Len(lp_jobs) : lp_jobs[j].ok}

\* C1: any two successful print submissions for the same non-authorized user
\* are at least 7 days apart, also when two invocations of handle_image for
\* that user interleave at their awaits.
C1_MinInterval ==
    \A j \in OkJobs, k \in OkJobs :
        (j < k /\ lp_jobs[j].user = lp_jobs[k].user /\ lp_jobs[j].user \in Guests)
            => lp_jobs[k].at - lp_jobs[j].at >= UNAUTHORIZED_USER_PRINT_INTERVAL

\* C2: with guest printing enabled, right after record_print for a
\* non-authorized user can_print denies that user with the full interval to
\* wait; while less than 7 days have passed since the recorded print it denies
\* with the rate-limit reason, 3 days after with "4 days" to wait; from 7 days
\* on it allows.
C2_RecordStep ==
    \A i \in 1..MaxRequests, s \in SaveOutcomes, u \in Users :
        (Sent(i, s) /\ ShouldRecord(i) /\ u = requests[i].user) =>
            /\ u \in DOMAIN print_history'
            /\ print_history'[u].last_print = [t |-> now, aware |-> TRUE]
            /\ can_print(u)' = RateLimited(UNAUTHORIZED_USER_PRINT_INTERVAL)

C2_Cooldown ==
    ALLOW_GUEST_PRINTING =>
        \A u \in Guests :
            HasAwareEntry(u) =>
                /\ Elapsed(u) < 7 * Day =>
                       /\ ~can_print(u).allowed
                       /\ can_print(u).kind = "rate_limit"
                /\ Elapsed(u) = 3 * Day =>
                       /\ can_print(u).wait = 4 * Day
                       /\ can_print(u).text =
                              "You have already printed recently. Please wait 4 days before printing again."
                /\ Elapsed(u) >= 7 * Day => can_print(u) = Allowed

C2_RecordThenCooldown == [][C2_RecordStep]_vars /\ []C2_Cooldown

\* a guest's print was recorded, and 3 days later the same guest is told to
\* wait 4 days
C2_Witness ==
    \E j \in OkJobs, i \in DOMAIN requests :
        /\ ALLOW_GUEST_PRINTING
        /\ lp_jobs[j].user \in Guests
        /\ lp_jobs[j].req \notin DOMAIN requests
        /\ error_log = 0
        /\ requests[i].user = lp_jobs[j].user
        /\ HasAwareEntry(lp_jobs[j].user)
        /\ print_history[lp_jobs[j].user].last_print.t = lp_jobs[j].at
        /\ now = lp_jobs[j].at + 3 * Day
        /\ requests[i].pc = "reply_denied"
        /\ requests[i].decision.wait = 4 * Day

\* C3: for every user of the allow-list can_print returns Allowed, whatever
\* the history holds for that user and whatever the guest-printing flag is.
C3_AuthorizedAlwaysAllowed ==
    /\ \A u \in ALLOWED_USER_IDS : can_print(u) = Allowed
    /\ \A i \in DOMAIN requests :
           requests[i].user \in ALLOWED_USER_IDS => requests[i].decision = Allowed

\* an allow-listed user with a print less than 7 days old in the history,
\* guest printing disabled, was allowed by handle_image
C3_Witness ==
    \E i \in DOMAIN requests :
        /\ requests[i].user \in ALLOWED_USER_IDS
        /\ ~ALLOW_GUEST_PRINTING
        /\ HasAwareEntry(requests[i].user)
        /\ Elapsed(requests[i].user) < 7 * Day
        /\ now > 0
        /\ requests[i].pc = "download"

\* C4: a non-authorized user whose last print was T < 7 days ago is denied
\* with the rate-limit reason and 7 days - T to wait, whether guest printing
\* is enabled or not.
C4_RateLimitFirst ==
    \A u \in Guests :
        (HasAwareEntry(u) /\ Elapsed(u) < 7 * Day) =>
            /\ ~can_print(u).allowed
            /\ can_print(u).kind = "rate_limit"
            /\ can_print(u).wait = 7 * Day - Elapsed(u)

\* guest printing is disabled and handle_image told a rate-limited guest to wait
C4_Witness ==
    \E i \in DOMAIN requests :
        /\ ~ALLOW_GUEST_PRINTING
        /\ requests[i].user \in Guests
        /\ HasAwareEntry(requests[i].user)
        /\ Elapsed(requests[i].user) = 3 * Day
        /\ requests[i].pc = "reply_denied"
        /\ requests[i].decision.kind = "rate_limit"
        /\ requests[i].decision.wait = 4 * Day

\* C5: a non-authorized user without a history entry, or whose last print is
\* 7 days old or older, is allowed exactly when guest printing is enabled;
\* when it is disabled the reason is the guests-not-permitted one.
C5_GuestFlagDecides ==
    \A u \in Guests :
        (u \notin DOMAIN print_history \/ (HasAwareEntry(u) /\ Elapsed(u) >= 7 * Day)) =>
            /\ can_print(u).allowed <=> ALLOW_GUEST_PRINTING
            /\ ALLOW_GUEST_PRINTING => can_print(u) = Allowed
            /\ ~ALLOW_GUEST_PRINTING => can_print(u) = GuestsDenied

\* guest printing is disabled and handle_image refused a guest without history
\* with the guests-not-permitted reason
C5_Witness ==
    \E i \in DOMAIN requests :
        /\ ~ALLOW_GUEST_PRINTING
        /\ requests[i].user \in Guests
        /\ requests[i].user \notin DOMAIN print_history
        /\ requests[i].pc = "reply_denied"
        /\ requests[i].decision.kind = "guests"
        /\ requests[i].decision.text = "Printing is restricted to authorized users only."

\* a step of set_max_copies_command by a user outside the allow-list
SetMaxByOutsider ==
    \E u \in Users \ ALLOWED_USER_IDS, a \in SetMaxArgs : set_max_copies_command(u, a)

\* the steps of handle_image for a request that can_print denied
DeniedStep ==
    \/ \E u \in Users, c \in Captions : HandleImage(u, c) /\ ~can_print(u).allowed
    \/ \E i \in DOMAIN requests : ReplyDone(i) /\ ~requests[i].decision.allowed
    \/ \E i \in DOMAIN requests : AwaitRaises(i) /\ ~requests[i].decision.allowed

\* C6: when can_print denies an image event, handle_image replies with the
\* reason and stops: the image is not resized, lp is not run for it, and
\* print_history, the history file and MAX_COPIES stay as they were.
C6_DeniedState ==
    \A i \in DOMAIN requests :
        ~requests[i].decision.allowed =>
            /\ requests[i].pc = "reply_denied"
            /\ requests[i].reply =
                   "Sorry, you cannot print right now. " \o requests[i].decision.text
            /\ requests[i].resized = "no"
            /\ \A j \in 1..Len(lp_jobs) : lp_jobs[j].req # i

C6_DeniedNoEffects ==
    /\ []C6_DeniedState
    /\ [][DeniedStep => UNCHANGED <<print_history, history_file, MAX_COPIES, lp_jobs>>]_vars

\* a guest inside the cooldown sent an image and is being told to wait
C6_Witness ==
    \E i \in DOMAIN requests :
        /\ requests[i].pc = "reply_denied"
        /\ requests[i].decision.kind = "rate_limit"
        /\ requests[i].user \in DOMAIN print_history
        /\ history_file.kind = "object"

\* C7: /setmaxcopies by a user who is not in the allow-list leaves MAX_COPIES
\* unchanged, whatever the allow-list is, the empty one included.
C7_SetMaxAuthorizedOnly == [][SetMaxByOutsider => MAX_COPIES' = MAX_COPIES]_vars

\* C8: lp is run with 1 copy for every non-authorized user, whatever the
\* caption asks for, and for an authorized user with the number parse_copies
\* returned for the caption when the copies were resolved.
C8_GuestCopies ==
    /\ \A j \in 1..Len(lp_jobs) : lp_jobs[j].user \in Guests => lp_jobs[j].copies = 1
    /\ \A i \in DOMAIN requests :
           (requests[i].user \in Guests /\ requests[i].pc # "download")
               => requests[i].copies \in {0, 1}

C8_ResolveStep ==
    \A i \in 1..MaxRequests :
        Downloaded(i) =>
            requests'[i].copies =
                IF requests[i].user \in ALLOWED_USER_IDS
                THEN parse_copies(requests[i].caption) ELSE 1

C8_SubmitStep ==
    \A i \in 1..MaxRequests :
        (PrintSucceeds(i) \/ PrintFails(i)) =>
            /\ Len(lp_jobs') = Len(lp_jobs) + 1
            /\ lp_jobs'[Len(lp_jobs')].user = requests[i].user
            /\ lp_jobs'[Len(lp_jobs')].copies = requests[i].copies
            /\ requests[i].copies >= 1

C8_Copies == []C8_GuestCopies /\ [][C8_ResolveStep /\ C8_SubmitStep]_vars

\* an authorized user's caption "X3" gave 3 copies, and a guest's caption
\* "X3" gave 1 copy
C8_Witness ==
    \E j \in 1..Len(lp_jobs), k \in 1..Len(lp_jobs) :
        /\ lp_jobs[j].user \in ALLOWED_USER_IDS
        /\ lp_jobs[j].copies = 3
        /\ lp_jobs[k].user \in Guests
        /\ lp_jobs[k].copies = 1
        /\ lp_jobs[k].req \in DOMAIN requests
        /\ requests[lp_jobs[k].req].caption = Text(<<"X", "3">>)
        /\ MAX_COPIES >= 3

\* C9: no step of handle_image records a print for a user of the allow-list:
\* a history without allow-listed keys stays without them.
NoAuthorizedKeys(history) == DOMAIN history \cap ALLOWED_USER_IDS = {}

C9_SentStep ==
    \A i \in 1..MaxRequests, s \in SaveOutcomes :
        (Sent(i, s) /\ requests[i].user \in ALLOWED_USER_IDS)
            => UNCHANGED <<print_history, history_file>>

C9_AuthorizedNeverRecorded ==
    [][C9_SentStep /\ (NoAuthorizedKeys(print_history) => NoAuthorizedKeys(print_history'))]_vars

\* an authorized user's print succeeded and the handler returned normally,
\* guest printing being enabled; the history has no entry for that user
C9_Witness ==
    \E j \in OkJobs :
        /\ lp_jobs[j].user \in ALLOWED_USER_IDS
        /\ lp_jobs[j].req \notin DOMAIN requests
        /\ error_log = 0
        /\ ALLOW_GUEST_PRINTING
        /\ lp_jobs[j].user \notin DOMAIN print_history

\* C10: a request that fails at the resize or at lp leaves print_history and
\* the history file unchanged, so can_print answers for every user as before.
FailingStep ==
    \/ \E i \in 1..MaxRequests : ResizeFails(i)
    \/ \E i \in 1..MaxRequests : PrintFails(i)
    \/ \E i \in DOMAIN requests :
           ReplyDone(i) /\ requests[i].pc \in {"reply_failed_image", "reply_failed_print"}

C10_FailureKeepsHistory ==
    [][FailingStep =>
          /\ UNCHANGED <<print_history, history_file>>
          /\ \A u \in Users : can_print(u)' = can_print(u)]_vars

\* a guest's print failed at lp, the handler returned, and the guest's next
\* image is allowed
C10_Witness ==
    \E j \in 1..Len(lp_jobs), i \in DOMAIN requests :
        /\ ~lp_jobs[j].ok
        /\ lp_jobs[j].user \in Guests
        /\ lp_jobs[j].req \notin DOMAIN requests
        /\ error_log = 0
        /\ i > lp_jobs[j].req
        /\ requests[i].user = lp_jobs[j].user
        /\ requests[i].decision = Allowed
        /\ requests[i].pc = "download"
        /\ lp_jobs[j].user \notin DOMAIN print_history

\* C11: parse_copies returns a number for every caption: N when the trimmed,
\* case-folded caption is x<N> or copies=<N> as a whole (white space allowed
\* around "=") and 1 <= N <= MAX_COPIES; 1 when N is outside that range, when
\* the caption is anything else ("please print x3"), empty or absent.
ExpectedCopies(c) == IF c.match /\ 1 <= c.n /\ c.n <= MAX_COPIES THEN c.n ELSE 1

C11_ParseCopies ==
    \A i \in DOMAIN requests :
        (requests[i].pc = "reply_received" /\ requests[i].authorized) =>
            /\ requests[i].copies \in 1..MAX_COPIES
            /\ \A c \in ParseCases :
                   c.caption = requests[i].caption
                       => requests[i].copies = ExpectedCopies(c)

\* the copies of "Copies = 5" were resolved to 5 and those of
\* "please print x3" to 1
C11_Witness ==
    \E i \in DOMAIN requests, k \in DOMAIN requests :
        /\ requests[i].pc = "reply_received" /\ requests[i].authorized
        /\ requests[i].caption = Text(<<"C", "o", "p", "i", "e", "s", " ", "=", " ", "5">>)
        /\ requests[i].copies = 5
        /\ requests[k].pc = "reply_received" /\ requests[k].authorized
        /\ requests[k].caption = Text(<<"p", "l", "e", "a", "s", "e", " ", "p", "r", "i", "n", "t", " ", "x", "3">>)
        /\ requests[k].copies = 1

\* the file holds an entry for user u with the aware timestamp t
Persisted(u, t) ==
    /\ history_file.kind = "object"
    /\ IntToDigits(u) \in DOMAIN history_file.items
    /\ history_file.items[IntToDigits(u)].last_print = isoformat([t |-> t, aware |-> TRUE])

\* C12: the history is loaded at startup, so the cooldown survives a restart:
\* when a non-authorized user's print at T0 is in the file and the process
\* has started, can_print denies that user with the rate-limit reason at any
\* time before T0 + 7 days, whatever the guest-printing flag was at the start.
C12_CooldownSurvivesRestart ==
    \A u \in Guests, j \in OkJobs :
        (/\ process = "running"
         /\ lp_jobs[j].user = u
         /\ Persisted(u, lp_jobs[j].at)
         /\ now - lp_jobs[j].at < UNAUTHORIZED_USER_PRINT_INTERVAL)
            => can_print(u).kind = "rate_limit"

\* C13: load_print_history never ends the start of the process: with an
\* absent file, a file that is not JSON or cannot be read, or a JSON value
\* that is not an object, main goes on with an empty history.
C13_LoadNeverCrashes ==
    /\ process # "crashed"
    /\ (received = 0 /\ history_file.kind # "object") => print_history = EmptyMap

\* C14: on load every item that fails to parse (a key that is not an integer,
\* a corrupt or missing timestamp, a value of the wrong shape) is left out by
\* itself, and every well-formed item of the same file is loaded with its
\* timestamp and display name.
C14_EntriesLoadIndividually ==
    (process = "running" /\ ALLOW_GUEST_PRINTING /\ history_file.kind = "object") =>
        /\ DOMAIN print_history \subseteq Users
        /\ \A u \in Users, c \in LoadCases :
               (/\ IntToDigits(u) \in DOMAIN history_file.items
                /\ history_file.items[IntToDigits(u)] = c.data) =>
                   IF c.loads
                   THEN u \in DOMAIN print_history /\ print_history[u] = c.entry
                   ELSE u \notin DOMAIN print_history
        /\ \A u \in Users :
               IntToDigits(u) \notin DOMAIN history_file.items => u \notin DOMAIN print_history

\* a file with a well-formed item for user 1, an item without timestamp for
\* user 2 and an item under the key "x" was loaded: only user 1 has an entry
C14_Witness ==
    /\ process = "running"
    /\ ALLOW_GUEST_PRINTING
    /\ history_file.kind = "object"
    /\ DOMAIN history_file.items = {<<"1">>, <<"2">>, <<"x">>}
    /\ history_file.items[<<"2">>] = JsonDict(NoTimestamp, "alice")
    /\ DOMAIN print_history = {1}
    /\ print_history[1] = [last_print |-> [t |-> Day, aware |-> TRUE], username |-> "Unknown"]

\* C15: when writing the file fails during record_print, nothing is raised:
\* the handler returns normally, print_history holds the user's new entry and
\* can_print then denies that user with the rate-limit reason.
C15_SaveFailStep ==
    \A i \in 1..MaxRequests, s \in SaveOutcomes \ {"saved"}, u \in Users :
        (Sent(i, s) /\ ShouldRecord(i) /\ u = requests[i].user) =>
            /\ error_log' = error_log
            /\ process' = "running"
            /\ i \notin DOMAIN requests'
            /\ u \in DOMAIN print_history'
            /\ print_history'[u].last_print = [t |-> now, aware |-> TRUE]
            /\ can_print(u)'.kind = "rate_limit"

C15_SaveFailureKeepsEntry == [][C15_SaveFailStep]_vars

\* a guest's print was recorded while the file could not be written; the
\* guest's next image is refused with the rate-limit reason
C15_Witness ==
    \E j \in OkJobs, i \in DOMAIN requests :
        /\ lp_jobs[j].user \in Guests
        /\ lp_jobs[j].req \notin DOMAIN requests
        /\ error_log = 0
        /\ history_file.kind \in {"absent", "corrupt"}
        /\ requests[i].user = lp_jobs[j].user
        /\ HasAwareEntry(lp_jobs[j].user)
        /\ print_history[lp_jobs[j].user].last_print.t = lp_jobs[j].at
        /\ requests[i].pc = "reply_denied"
        /\ requests[i].decision.kind = "rate_limit"

\* C16: an lp command that does not return is given up after a bounded time
\* and handle_image ends with the failure reply: no invocation is still
\* waiting for lp a day after it started it.
C16_PrintTimeout ==
    \A i \in DOMAIN requests, j \in 1..Len(lp_jobs) :
        (requests[i].pc = "lp_running" /\ lp_jobs[j].req = i)
            => now - lp_jobs[j].at < Day

\* C17: what save_print_history writes for a store, load_print_history reads
\* back as the same mapping from user to (last print, display name), for
\* every store that record_print produces; a process restarted on the file
\* it has just saved has the history it had.
SavedFile(history) == save_print_history(history, history_file, "saved")

C17_SaveThenLoad == load_print_history(SavedFile(print_history)) = print_history

C17_SaveStep ==
    \A i \in 1..MaxRequests :
        (Sent(i, "saved") /\ ShouldRecord(i))
            => load_print_history(history_file') = print_history'

C17_RestartStep ==
    \A env \in RestartEnv :
        (Restart(TRUE, env) /\ process = "running" /\ history_file = SavedFile(print_history))
            => print_history' = print_history

C17_RoundTrip == []C17_SaveThenLoad /\ [][C17_SaveStep /\ C17_RestartStep]_vars

\* two guests' prints, one with a username and one without, were recorded
\* and saved; the file reads back as print_history
C17_Witness ==
    /\ error_log = 0
    /\ requests = EmptyMap
    /\ DOMAIN print_history = {1, 2}
    /\ \A u \in {1, 2} : \E j \in OkJobs :
           lp_jobs[j].user = u /\ print_history[u].last_print = [t |-> lp_jobs[j].at, aware |-> TRUE]
    /\ print_history[1].username = "alice"
    /\ print_history[2].username = "Unknown"
    /\ print_history[1].last_print.t # print_history[2].last_print.t
    /\ history_file = SavedFile(print_history)
    /\ load_print_history(history_file) = print_history

\* C18: an image request goes Received -> Checked -> CopiesResolved ->
\* Resized -> Submitted -> HistoryUpdated? -> Terminated and never back: lp is
\* run at most once per request, only for a request that can_print allowed
\* and whose image was resized; record_print runs only for a request whose
\* lp succeeded; after a failure the request only terminates.
PcEdges ==
    {<<"download", "reply_received">>,
     <<"reply_received", "reply_failed_image">>,
     <<"reply_received", "reply_failed_print">>,
     <<"reply_received", "reply_sent">>,
     <<"reply_received", "lp_running">>}

C18_OncePerRequest ==
    \A j \in 1..Len(lp_jobs), k \in 1..Len(lp_jobs) :
        lp_jobs[j].req = lp_jobs[k].req => j = k

C18_PcStep ==
    \A i \in 1..MaxRequests :
        /\ (i \in DOMAIN requests /\ i \in DOMAIN requests') =>
               \/ requests'[i] = requests[i]
               \/ <<requests[i].pc, requests'[i].pc>> \in PcEdges
        /\ (i \notin DOMAIN requests /\ i \in DOMAIN requests') =>
               /\ i = received + 1
               /\ requests'[i].pc =
                      IF ~requests'[i].decision.allowed THEN "reply_denied"
                      ELSE IF ~CUPS_PRINTER_NAME THEN "reply_no_printer"
                      ELSE "download"

C18_SubmitStep ==
    lp_jobs' # lp_jobs =>
        \E i \in DOMAIN requests :
            /\ lp_jobs' = Append(lp_jobs, lp_jobs'[Len(lp_jobs')])
            /\ lp_jobs'[Len(lp_jobs')].req = i
            /\ requests[i].decision.allowed
            /\ requests[i].pc = "reply_received"
            /\ requests[i].resized = "no"
            /\ requests'[i].resized = "ok"

C18_RecordStep ==
    print_history' # print_history =>
        \E i \in DOMAIN requests, j \in OkJobs :
            /\ lp_jobs[j].req = i
            /\ requests[i].pc = "reply_sent"
            /\ i \notin DOMAIN requests'
            /\ print_history' = record_print(print_history, requests[i].user,
                                             UsernameOf(requests[i].user))

C18_StateMachine ==
    []C18_OncePerRequest /\ [][C18_PcStep /\ C18_SubmitStep /\ C18_RecordStep]_vars

\* one request ended after lp failed, the next one of the same guest was
\* submitted, recorded and ended
C18_Witness ==
    \E j \in 1..Len(lp_jobs), k \in OkJobs :
        /\ ~lp_jobs[j].ok
        /\ j < k
        /\ lp_jobs[j].user = lp_jobs[k].user
        /\ requests = EmptyMap
        /\ error_log = 0
        /\ HasAwareEntry(lp_jobs[k].user)
        /\ print_history[lp_jobs[k].user].last_print.t = lp_jobs[k].at

\* C19: when image requests of two different non-authorized users are in
\* flight together and both prints succeed, both users have an entry in
\* print_history afterwards, whatever the interleaving, and a save that
\* succeeds writes every entry of print_history to the file.
C19_NoLostEntry ==
    (ALLOW_GUEST_PRINTING /\ error_log = 0) =>
        \A j \in OkJobs :
            (lp_jobs[j].user \in Guests /\ lp_jobs[j].req \notin DOMAIN requests) =>
                /\ HasAwareEntry(lp_jobs[j].user)
                /\ print_history[lp_jobs[j].user].last_print.t >= lp_jobs[j].at

C19_RecordStep ==
    \A i \in 1..MaxRequests, s \in SaveOutcomes :
        (Sent(i, s) /\ ShouldRecord(i)) =>
            /\ \A v \in DOMAIN print_history \ {requests[i].user} :
                   v \in DOMAIN print_history' /\ print_history'[v] = print_history[v]
            /\ requests[i].user \in DOMAIN print_history'
            /\ s = "saved" =>
                   /\ history_file'.kind = "object"
                   /\ \A v \in DOMAIN print_history' :
                          /\ IntToDigits(v) \in DOMAIN history_file'.items
                          /\ history_file'.items[IntToDigits(v)] =
                                 JsonDict(isoformat(print_history'[v].last_print),
                                          print_history'[v].username)

C19_ConcurrentRecords == []C19_NoLostEntry /\ [][C19_RecordStep]_vars

\* two guests' requests overlapped (the second request was submitted to lp
\* before the first), both prints succeeded and both handlers returned: the
\* history and the file hold both entries
C19_Witness ==
    /\ Len(lp_jobs) = 2
    /\ lp_jobs[1].req = 2 /\ lp_jobs[2].req = 1
    /\ lp_jobs[1].ok /\ lp_jobs[2].ok
    /\ lp_jobs[1].user # lp_jobs[2].user
    /\ {lp_jobs[1].user, lp_jobs[2].user} \subseteq Guests
    /\ requests = EmptyMap
    /\ error_log = 0
    /\ DOMAIN print_history = {lp_jobs[1].user, lp_jobs[2].user}
    /\ Persisted(lp_jobs[1].user, lp_jobs[1].at)
    /\ Persisted(lp_jobs[2].user, lp_jobs[2].at)

\* C20: the eligibility check and the status queries only read: a step of
\* /help or /start, and the step of handle_image that calls can_print,
\* leave print_history, the history file and MAX_COPIES as they were, for
\* every user and in every state.
ReadOnlyStep ==
    \/ \E u \in Users : help_command(u)
    \/ \E u \in Users : start(u)
    \/ \E i \in 1..MaxRequests : StatusReplied(i)
    \/ \E u \in Users, c \in Captions : HandleImage(u, c)

C20_StatusReadOnly ==
    [][ReadOnlyStep => UNCHANGED <<print_history, history_file, MAX_COPIES>>]_vars

\* /help is answering a guest inside the cooldown with the time to wait,
\* /start is answering an allow-listed user, and the guest's entry is the one
\* the history started with
C20_Witness ==
    \E i \in DOMAIN requests, k \in DOMAIN requests :
        /\ requests[i].pc = "reply_help"
        /\ requests[i].user \in Guests
        /\ requests[i].decision.kind = "rate_limit"
        /\ requests[i].decision.wait = 4 * Day
        /\ HasAwareEntry(requests[i].user)
        /\ Elapsed(requests[i].user) = 3 * Day
        /\ requests[k].pc = "reply_start"
        /\ requests[k].user \in ALLOWED_USER_IDS
        /\ history_file = AbsentFile
        /\ MAX_COPIES = DEFAULT_MAX_COPIES

\* C21: MAX_COPIES is a positive integer in every reachable state.  At the
\* start a missing, invalid or non-positive MAX_COPIES of the environment
\* gives 100; /setmaxcopies with a non-positive value, with a value that is
\* not an integer or with a wrong number of arguments leaves MAX_COPIES as it
\* was, and by a user of the allow-list with a positive integer N sets it
\* to N.
C21_Positive == MAX_COPIES \in Nat /\ MAX_COPIES >= 1

C21_StartStep ==
    \A c \in EnvCases : Restart(TRUE, c.env) => MAX_COPIES' = c.value

\* only a step that leaves everything but MAX_COPIES alone can be one of
\* set_max_copies_command
C21_SetMaxStep ==
    UNCHANGED <<config, process, print_history, history_file, now, requests, received,
                lp_jobs, error_log>> =>
        \A u \in Users, c \in SetMaxCases :
            set_max_copies_command(u, c.args) =>
                /\ ~c.sets => MAX_COPIES' = MAX_COPIES
                /\ (c.sets /\ u \in ALLOWED_USER_IDS) => MAX_COPIES' = c.n

C21_MaxCopiesPositive == []C21_Positive /\ [][C21_StartStep /\ C21_SetMaxStep]_vars

\* the caption "X3" of an allow-listed user was resolved to 1 copy under a
\* limit of 2 and to 3 copies under a higher one, and /setmaxcopies 50 has
\* set the limit to 50, which no value of the environment gives
C21_Witness ==
    \E i \in DOMAIN requests, k \in DOMAIN requests :
        /\ requests[i].user \in ALLOWED_USER_IDS
        /\ requests[i].pc = "reply_received"
        /\ requests[i].copies = 3
        /\ requests[k].pc = "reply_received"
        /\ requests[k].copies = 1
        /\ requests[k].user \in ALLOWED_USER_IDS
        /\ requests[k].caption = Text(<<"X", "3">>)
        /\ MAX_COPIES = 50

\* C22: during one life of the process no handler removes an entry of
\* print_history, and the last-print time stored for a user never decreases,
\* whatever the sequence of record_print calls.
C22_HistoryStep ==
    \A u \in DOMAIN print_history :
        /\ u \in DOMAIN print_history'
        /\ print_history'[u].last_print.t >= print_history[u].last_print.t

C22_EntriesStay == [][C22_HistoryStep]_vars

\* the history was loaded with entries of users 1 and 2; 7 days later a
\* print of user 1 was recorded over the entry, which now carries the later
\* time, and the entry of user 2 is still the loaded one
C22_Witness ==
    \E j \in OkJobs :
        /\ lp_jobs[j].user = 1
        /\ lp_jobs[j].at = 7 * Day
        /\ lp_jobs[j].req \notin DOMAIN requests
        /\ error_log = 0
        /\ DOMAIN print_history = {1, 2}
        /\ print_history[1].last_print = [t |-> 7 * Day, aware |-> TRUE]
        /\ print_history[2] = [last_print |-> [t |-> 0, aware |-> TRUE], username |-> "Unknown"]

-----------------------------------------------------------------------------
(* The wait text of can_print over remaining waits down to the second: the  *)
(* process is looked at when the clock is a chosen wait before the end of   *)
(* the cooldown of an entry recorded at time 0.                             *)

\* remaining waits in seconds and the text lines 159-168 give for them
WaitCases ==
    {[r |-> 1, text |-> "less than a minute"],
     [r |-> 30, text |-> "less than a minute"],
     [r |-> 59, text |-> "less than a minute"],
     [r |-> 60, text |-> "1 minute"],
     [r |-> 61, text |-> "1 minute"],
     [r |-> 119, text |-> "1 minute"],
     [r |-> 120, text |-> "2 minutes"],
     [r |-> 3599, text |-> "59 minutes"],
     [r |-> 3600, text |-> "1 hour"],
     [r |-> 3660, text |-> "1 hour"],
     [r |-> 7200, text |-> "2 hours"],
     [r |-> 86399, text |-> "23 hours"],
     [r |-> 86400, text |-> "1 day"],
     [r |-> 86459, text |-> "1 day"],
     [r |-> 90000, text |-> "1 day, 1 hour"],
     [r |-> 180300, text |-> "2 days, 2 hours"],
     [r |-> 604799, text |-> "6 days, 23 hours"],
     [r |-> 604800, text |-> "7 days"]}

\* the times of the entries: the epoch and 30 seconds less than 25 hours later
WaitEntryTimes == {0, Day + Hour - 30}

WaitHistories ==
    UNION {[S -> {[last_print |-> [t |-> t, aware |-> TRUE], username |-> "Unknown"] :
                     t \in WaitEntryTimes}] : S \in SUBSET Users}

WaitSteps == {Day + Hour + Minute}

InitWait ==
    /\ ALLOWED_USER_IDS \in AllowLists
    /\ ALLOW_GUEST_PRINTING \in BOOLEAN
    /\ CUPS_PRINTER_NAME = TRUE
    /\ MAX_COPIES = DEFAULT_MAX_COPIES
    /\ history_file = AbsentFile
    /\ process = "running"
    /\ print_history \in WaitHistories
    /\ now \in {UNAUTHORIZED_USER_PRINT_INTERVAL - c.r : c \in WaitCases}
    /\ requests = EmptyMap
    /\ received = 0
    /\ lp_jobs = <<>>
    /\ error_log = 0

NextWait ==
    \/ \E u \in Users : HandleImage(u, NoText)
    \/ \E i \in 1..MaxRequests : ReplyDone(i)
    \/ \E u \in Users : help_command(u)
    \/ \E i \in 1..MaxRequests : StatusReplied(i)
    \/ \E d \in WaitSteps : Tick(d)

SpecWait == InitWait /\ [][NextWait]_vars

\* the rate-limit reason around a wait text (line 172)
WaitReason(w) ==
    "You have already printed recently. Please wait " \o w \o " before printing again."

\* a count with its unit, plural unless the count is 1
Named(n, unit) == ToString(n) \o " " \o unit \o (IF n = 1 THEN "" ELSE "s")

\* the texts that name, largest unit first, some of the units of r whose
\* count is not 0
Composites(r) ==
    LET d == r \div Day
        h == (r % Day) \div Hour
        m == (r % Hour) \div Minute
        D == IF d > 0 THEN {Named(d, "day")} ELSE {}
        H == IF h > 0 THEN {Named(h, "hour")} ELSE {}
        M == IF m > 0 THEN {Named(m, "minute")} ELSE {}
    IN  D \cup H \cup M
          \cup {x \o ", " \o y : x \in D, y \in H \cup M}
          \cup {x \o ", " \o y : x \in H, y \in M}
          \cup {x \o ", " \o y \o ", " \o z : x \in D, y \in H, z \in M}

\* C23: for a remaining wait r with 0 < r <= 7 days the wait text is "less
\* than a minute" exactly when r is under one minute; otherwise it names
\* units of r whose count is not 0, each with "s" exactly when its count is not
\* 1.  For the waits of WaitCases the text is the one of the table.
C23_WaitText ==
    \A i \in DOMAIN requests :
        LET r == requests[i].decision.wait
            text == requests[i].decision.text
        IN  (requests[i].decision.kind = "rate_limit"
                 /\ r <= UNAUTHORIZED_USER_PRINT_INTERVAL) =>
                /\ r > 0
                /\ (text = WaitReason("less than a minute")) <=> (r < Minute)
                /\ r >= Minute => text \in {WaitReason(w) : w \in Composites(r)}
                /\ \A c \in WaitCases : c.r = r => text = WaitReason(c.text)
                /\ requests[i].pc = "reply_denied" =>
                       requests[i].reply = "Sorry, you cannot print right now. " \o text

\* two guests were refused at the same time: the one with 30 seconds left was
\* told "less than a minute", the one with 25 hours left "1 day, 1 hour"
C23_Witness ==
    \E i, k \in DOMAIN requests :
        /\ requests[i].pc = "reply_denied"
        /\ requests[i].decision.wait = 30
        /\ requests[i].decision.text = WaitReason("less than a minute")
        /\ requests[k].pc = "reply_denied"
        /\ requests[k].decision.wait = Day + Hour
        /\ requests[k].decision.text = WaitReason("1 day, 1 hour")

\* C24: for every history that load_print_history has loaded, with items of
\* the new and the old format and timestamps with or without a UTC offset, and
\* for every user, can_print returns a decision (allowed, refused as a guest,
\* or rate limited) and does not raise: no image handler is left by an
\* exception.
C24_CanPrintTotal ==
    /\ \A u \in Users : can_print(u).kind \in {"none", "guests", "rate_limit"}
    /\ error_log = 0

\* the awaits of handle_image after the copies were resolved (line 484 on)
ResolvedPcs ==
    {"reply_received", "reply_sent", "reply_failed_image", "reply_failed_print",
     "lp_running"}

\* C25: every run of lp carries a number of copies c with 1 <= c <= the value
\* MAX_COPIES had when the copies of that request were resolved, however image
\* requests and /setmaxcopies commands interleave: the copies are within the
\* limit of the step that resolves them, a later change of the limit does not
\* touch them, and lp is run with the copies of its request.
C25_ResolveStep ==
    \A i \in DOMAIN requests' :
        IF i \in DOMAIN requests /\ requests[i].pc \notin ResolvedPcs
        THEN requests'[i].pc \in ResolvedPcs =>
                 /\ requests'[i].copies \in Nat
                 /\ 1 <= requests'[i].copies
                 /\ requests'[i].copies <= MAX_COPIES
        ELSE IF i \in DOMAIN requests
        THEN /\ requests'[i].pc \in ResolvedPcs
             /\ requests'[i].copies = requests[i].copies
        ELSE requests'[i].pc \notin ResolvedPcs

C25_SubmitStep ==
    lp_jobs' # lp_jobs =>
        \E i \in DOMAIN requests :
            /\ requests[i].pc = "reply_received"
            /\ \E ok \in BOOLEAN :
                   lp_jobs' = Append(lp_jobs, [req |-> i, user |-> requests[i].user,
                                               copies |-> requests[i].copies,
                                               at |-> now, ok |-> ok])

C25_AtLeastOne ==
    /\ \A j \in 1..Len(lp_jobs) : lp_jobs[j].copies \in Nat /\ lp_jobs[j].copies >= 1
    /\ \A i \in DOMAIN requests : requests[i].pc \in ResolvedPcs => requests[i].copies >= 1

C25_CopiesWithinLimit == []C25_AtLeastOne /\ [][C25_ResolveStep /\ C25_SubmitStep]_vars

\* 3 copies, resolved under the limit 100, were sent to the printer after the
\* limit had been set to 2, and the same caption of a later request was
\* resolved to 1 copy under the limit 2
C25_Witness ==
    \E j \in OkJobs, k \in DOMAIN requests :
        /\ lp_jobs[j].copies = 3
        /\ lp_jobs[j].req # k
        /\ MAX_COPIES = 2
        /\ requests[k].authorized
        /\ requests[k].caption = Text(<<"X", "3">>)
        /\ requests[k].pc = "reply_received"
        /\ requests[k].copies = 1

====
